---------------------------- MODULE Spec2Model ----------------------------
(***************************************************************************)
(* Handle lifecycle and status translation of the rustoci binding:         *)
(* src/src/ffi.rs (native call wrappers, check_error), src/src/env.rs      *)
(* (Environment), src/src/conn.rs (Connection), src/src/stmt.rs            *)
(* (Statement).                                                            *)
(*                                                                         *)
(* The native library is a stub that answers every call with a status      *)
(* code chosen from NativeStatuses.  Every native call is appended to the  *)
(* log `calls`, in the order the program issues it.  Strings are sequences *)
(* of one-character strings; handles are named by the kind of handle the   *)
(* native layer hands out ("env", "err", "srv", "svc", "ses", "stmt").     *)
(***************************************************************************)
EXTENDS Integers, Sequences, FiniteSets, TLC

\* ------------------------------------------------------------------ bounds
\* Largest number of execute() calls the caller chains on one Statement.
MaxExec == 2
\* Largest number of non-NUL bytes that follow a String's buffer in memory.
MaxTrail == 1
\* check_error is applied to every status code in -MaxCode..MaxCode (and to
\* the sentinel codes outside that range).
MaxCode == 3

\* --------------------------------------------------------- ffi.rs constants
OCIMode_Default == 0
OCIHandleType_Environment == 1
OCIHandleType_Error == 2
OCIHandleType_Service == 3
OCIHandleType_Server == 8
OCIHandleType_Session == 9
OCICredentialsType_Rdbms == 1
OCIAuthMode_Default == 0
OCISyntax_NtvSyntax == 1
OCIStmtPrepare2Mode_Default == 0
OCIAttribute_Server == 6
OCIAttribute_Session == 7
OCIAttribute_Username == 22
\* The attribute code of the password taken for that of the username.
OCIAttribute_Password_as_Username == OCIAttribute_Username
OCIAttribute_Password == 23

\* A null pointer (ptr::null_mut()), and Option::None for the error handle.
NULL == "null"
NoHandle == "None"

\* One application of check_error on its own: its arguments, what the native
\* layer holds for OCIErrorGet, and its outcome.
VARIABLE cs

\* ------------------------------------------------------------------ strings
IsWhitespace(c) == c \in {" ", "\n"}

RECURSIVE trim_left(_)
trim_left(s) ==
    IF s # <<>> /\ IsWhitespace(Head(s)) THEN trim_left(Tail(s)) ELSE s

RECURSIVE trim_right(_)
trim_right(s) ==
    IF s # <<>> /\ IsWhitespace(s[Len(s)])
    THEN trim_right(SubSeq(s, 1, Len(s) - 1))
    ELSE s

\* str::trim
trim(s) == trim_right(trim_left(s))

\* ------------------------------------------------------- status translation
\* struct OracleError
OracleError(code, message, location) ==
    [code |-> code, message |-> message, location |-> location]

NoError == OracleError(0, <<>>, "")

\* Option<OracleError>, and the panic that ends check_error otherwise.
None == [tag |-> "None", err |-> NoError]
Some(e) == [tag |-> "Some", err |-> e]
Panic == [tag |-> "Panic", err |-> NoError]

unwrap_or(opt, default) == IF opt.tag = "Some" THEN opt.err ELSE default

\* The bufsiz oci_error_get announces to OCIErrorGet: buf.capacity().
ErrorGet_bufsiz == 3072

\* The buffer OCIErrorGet is handed is not buf: with_c_str passes a NUL
\* terminated copy of buf's contents, and buf is empty.  For a string shorter
\* than BUF_LEN bytes the copy lives in a buffer of BUF_LEN bytes.
BUF_LEN == 128

\* A byte sequence that is not UTF-8 contains this byte.
NotUtf8 == "<ff>"

is_utf8(s) == \A i \in 1..Len(s) : s[i] # NotUtf8

\* The message and its NUL fit the buffer the native layer writes to.
FitsBuffer(msg) == Len(msg) + 1 <= BUF_LEN

\* What CString::new(errm, false) finds in the buffer after the call.  A
\* message that does not fit is written past the end of the buffer: what is
\* read back then is not defined, here either the whole message or the part
\* inside the buffer (cs.overrun).
errm_read(msg) ==
    IF FitsBuffer(msg) \/ cs.overrun = "intact" THEN msg
    ELSE SubSeq(msg, 1, BUF_LEN - 1)

\* as_str() is None for bytes that are not UTF-8, and the message is empty.
errm_to_string(bytes) == IF is_utf8(bytes) THEN trim(bytes) ELSE <<>>

\* oci_error_get: one OCIErrorGet call for record 1; diag is what the native
\* layer writes to errcodep and bufp (Oracle error numbers are not negative,
\* so the c_int written into the zeroed int reads back unchanged).
oci_error_get(error_handle, location, diag) ==
    OracleError(diag.code, errm_to_string(errm_read(diag.msg)), location)

\* The record number oci_error_get asks for.
ErrorGet_recordno == 1

NoData_msg == <<"N", "o", " ", "d", "a", "t", "a">>
InvalidHandle_msg == <<"I", "n", "v", "a", "l", "i", "d", " ", "h", "a", "n", "d", "l", "e">>
NeedData_msg == <<"N", "e", "e", "d", " ", "d", "a", "t", "a">>
StillExecuting_msg ==
    <<"S", "t", "i", "l", "l", " ", "e", "x", "e", "c", "u", "t", "i", "n", "g">>
NoDetails_msg ==
    <<"E", "r", "r", "o", "r", " ", "w", "i", "t", "h", " ", "n", "o", " ",
      "d", "e", "t", "a", "i", "l", "s">>
SuccessWithInfo_msg ==
    <<"S", "u", "c", "c", "e", "s", "s", " ", "w", "i", "t", "h", " ", "i", "n", "f", "o">>

\* check_error, lines 1269-1272: the diagnostic record is fetched whenever an
\* error handle is supplied, before the code is looked at.
by_handle_of(error_handle, location, diag) ==
    IF error_handle # NoHandle
    THEN Some(oci_error_get(error_handle, location, diag))
    ELSE None

\* The record indexes check_error asks OCIErrorGet for, in order, given a
\* status code and an optional error handle (lines 1269-1272, through
\* oci_error_get).
error_get_records(code, error_handle) ==
    IF error_handle # NoHandle THEN <<ErrorGet_recordno>> ELSE <<>>

\* check_error returning the diagnostic record whenever the handle holds one
\* with a non-zero code, before it looks at the status code.
check_error_diag_first(code, error_handle, location, diag) ==
    LET by_handle == by_handle_of(error_handle, location, diag) IN
    IF by_handle.tag = "Some" /\ by_handle.err.code # 0 THEN by_handle
    ELSE
    CASE code = 0 -> None
      [] code = 100 -> Some(OracleError(code, NoData_msg, location))
      [] code = -2 -> Some(OracleError(code, InvalidHandle_msg, location))
      [] code = 99 -> Some(OracleError(code, NeedData_msg, location))
      [] code = -3123 -> Some(OracleError(code, StillExecuting_msg, location))
      [] code = -1 ->
            Some(unwrap_or(by_handle, OracleError(code, NoDetails_msg, location)))
      [] code = 1 ->
            Some(unwrap_or(by_handle, OracleError(code, SuccessWithInfo_msg, location)))
      [] OTHER -> Panic

\* check_error preferring the diagnostic record to the canned message for the
\* four canned codes as well.
check_error_canned_by_handle(code, error_handle, location, diag) ==
    LET by_handle == by_handle_of(error_handle, location, diag) IN
    CASE code = 0 -> None
      [] code = 100 ->
            Some(unwrap_or(by_handle, OracleError(code, NoData_msg, location)))
      [] code = -2 ->
            Some(unwrap_or(by_handle, OracleError(code, InvalidHandle_msg, location)))
      [] code = 99 ->
            Some(unwrap_or(by_handle, OracleError(code, NeedData_msg, location)))
      [] code = -3123 ->
            Some(unwrap_or(by_handle, OracleError(code, StillExecuting_msg, location)))
      [] code = -1 ->
            Some(unwrap_or(by_handle, OracleError(code, NoDetails_msg, location)))
      [] code = 1 ->
            Some(unwrap_or(by_handle, OracleError(code, SuccessWithInfo_msg, location)))
      [] OTHER -> Panic

\* check_error taking success-with-info for success.
check_error_info_is_success(code, error_handle, location, diag) ==
    LET by_handle == by_handle_of(error_handle, location, diag) IN
    CASE code = 0 -> None
      [] code = 100 -> Some(OracleError(code, NoData_msg, location))
      [] code = -2 -> Some(OracleError(code, InvalidHandle_msg, location))
      [] code = 99 -> Some(OracleError(code, NeedData_msg, location))
      [] code = -3123 -> Some(OracleError(code, StillExecuting_msg, location))
      [] code = -1 ->
            Some(unwrap_or(by_handle, OracleError(code, NoDetails_msg, location)))
      [] code = 1 -> None
      [] OTHER -> Panic

\* check_error taking a status code it does not know for success.
check_error_unknown_is_success(code, error_handle, location, diag) ==
    LET by_handle == by_handle_of(error_handle, location, diag) IN
    CASE code = 0 -> None
      [] code = 100 -> Some(OracleError(code, NoData_msg, location))
      [] code = -2 -> Some(OracleError(code, InvalidHandle_msg, location))
      [] code = 99 -> Some(OracleError(code, NeedData_msg, location))
      [] code = -3123 -> Some(OracleError(code, StillExecuting_msg, location))
      [] code = -1 ->
            Some(unwrap_or(by_handle, OracleError(code, NoDetails_msg, location)))
      [] code = 1 ->
            Some(unwrap_or(by_handle, OracleError(code, SuccessWithInfo_msg, location)))
      [] OTHER -> None

\* check_error, lines 1273-1297.
check_error(code, error_handle, location, diag) ==
    LET by_handle == by_handle_of(error_handle, location, diag) IN
    CASE code = 0 -> None
      [] code = 100 -> Some(OracleError(code, NoData_msg, location))
      [] code = -2 -> Some(OracleError(code, InvalidHandle_msg, location))
      [] code = 99 -> Some(OracleError(code, NeedData_msg, location))
      [] code = -3123 -> Some(OracleError(code, StillExecuting_msg, location))
      [] code = -1 ->
            Some(unwrap_or(by_handle, OracleError(code, NoDetails_msg, location)))
      [] code = 1 ->
            Some(unwrap_or(by_handle, OracleError(code, SuccessWithInfo_msg, location)))
      [] OTHER -> Panic


\* --------------------------------------------------------------- native calls
\* One native call as the stub records it: the entry point, the handle it acts
\* on, every handle pointer passed to it, its scalar arguments, and the status
\* the stub answered.
NativeCall(op) ==
    [op |-> op, target |-> NULL, uses |-> {}, htype |-> 0, attr |-> 0,
     size |-> 0, text |-> <<>>, textlen |-> 0, key |-> <<>>, keylen |-> 0,
     mode |-> 0, cred |-> 0, iters |-> 0, rowoff |-> 0, recordno |-> 0,
     lang |-> 0, res |-> 0]

\* A wrapper invocation: the native call it makes, and the error handle and
\* location tag it gives to check_error.
Wrapper(call, error_handle, location) ==
    [call |-> call, eh |-> error_handle, loc |-> location]

\* A pointer argument of type *mut c_void: a handle, or the bytes of a String.
PtrToHandle(handle) == [h |-> handle, bytes |-> <<>>]
PtrToBytes(str) == [h |-> NULL, bytes |-> str]

\* CString::new(value, false).len(): the bytes up to the first NUL.  A String's
\* buffer carries no NUL, so the count runs on over the `trail` bytes after it.
c_strlen(value, trail) == Len(value.bytes) + trail

oci_env_nls_create(mode) ==
    Wrapper([NativeCall("OCIEnvNlsCreate") EXCEPT !.mode = mode],
            NoHandle, "ffi::oci_env_nls_create")

\* oci_handle_alloc handing check_error the handle it allocates from.
oci_handle_alloc_diagnosed(envh, htype) ==
    Wrapper([NativeCall("OCIHandleAlloc") EXCEPT !.uses = {envh}, !.htype = htype],
            envh, "ffi::oci_handle_alloc")

oci_handle_alloc(envh, htype) ==
    Wrapper([NativeCall("OCIHandleAlloc") EXCEPT !.uses = {envh}, !.htype = htype],
            NoHandle, "ffi::oci_handle_alloc")

\* oci_server_attach carrying the location tag of oci_attr_set.
oci_server_attach_mistagged(server_handle, error_handle, db, mode) ==
    Wrapper([NativeCall("OCIServerAttach") EXCEPT
                !.target = server_handle, !.uses = {server_handle, error_handle},
                !.text = db, !.textlen = Len(db), !.mode = mode],
            error_handle, "ffi::oci_attr_set")

oci_server_attach(server_handle, error_handle, db, mode) ==
    Wrapper([NativeCall("OCIServerAttach") EXCEPT
                !.target = server_handle, !.uses = {server_handle, error_handle},
                !.text = db, !.textlen = Len(db), !.mode = mode],
            error_handle, "ffi::oci_server_attach")

oci_attr_set(handle, htype, value, attr_type, error_handle, trail) ==
    LET size == IF attr_type \in {OCIAttribute_Username, OCIAttribute_Password}
                THEN c_strlen(value, trail)
                ELSE 0
    IN Wrapper([NativeCall("OCIAttrSet") EXCEPT
                   !.target = handle,
                   !.uses = {handle, error_handle} \cup
                            (IF value.h # NULL THEN {value.h} ELSE {}),
                   !.htype = htype, !.text = value.bytes, !.size = size,
                   !.attr = attr_type],
               error_handle, "ffi::oci_attr_set")

oci_session_begin(service_handle, error_handle, session_handle, credentials_type, mode) ==
    Wrapper([NativeCall("OCISessionBegin") EXCEPT
                !.target = session_handle,
                !.uses = {service_handle, error_handle, session_handle},
                !.cred = credentials_type, !.mode = mode],
            error_handle, "ffi::oci_session_begin")

oci_session_end(service_handle, error_handle, session_handle) ==
    Wrapper([NativeCall("OCISessionEnd") EXCEPT
                !.target = session_handle,
                !.uses = {service_handle, error_handle, session_handle},
                !.mode = OCIAuthMode_Default],
            error_handle, "ffi::oci_session_end")

oci_server_detach(server_handle, error_handle) ==
    Wrapper([NativeCall("OCIServerDetach") EXCEPT
                !.target = server_handle, !.uses = {server_handle, error_handle},
                !.mode = OCIMode_Default],
            error_handle, "ffi::oci_server_detach")

oci_handle_free(handle, htype) ==
    Wrapper([NativeCall("OCIHandleFree") EXCEPT
                !.target = handle, !.uses = {handle}, !.htype = htype],
            NoHandle, "ffi::oci_handle_free")

oci_stmt_prepare2(service_handle, error_handle, stmt_text, stmt_hash) ==
    Wrapper([NativeCall("OCIStmtPrepare2") EXCEPT
                !.uses = {service_handle, error_handle},
                !.text = stmt_text, !.textlen = Len(stmt_text),
                !.key = stmt_hash, !.keylen = Len(stmt_hash),
                !.lang = OCISyntax_NtvSyntax, !.mode = OCIStmtPrepare2Mode_Default],
            error_handle, "ffi::oci_stmt_prepare2")

\* oci_stmt_execute asking for one iteration.
oci_stmt_execute_one_iter(service_handle, stmt_handle, error_handle) ==
    Wrapper([NativeCall("OCIStmtExecute") EXCEPT
                !.target = stmt_handle,
                !.uses = {service_handle, stmt_handle, error_handle},
                !.iters = 1, !.rowoff = 0, !.mode = OCIMode_Default],
            error_handle, "ffi::oci_stmt_execute")

oci_stmt_execute(service_handle, stmt_handle, error_handle) ==
    Wrapper([NativeCall("OCIStmtExecute") EXCEPT
                !.target = stmt_handle,
                !.uses = {service_handle, stmt_handle, error_handle},
                !.iters = 0, !.rowoff = 0, !.mode = OCIMode_Default],
            error_handle, "ffi::oci_stmt_execute")

oci_stmt_release(stmt_handle, error_handle, stmt_hash) ==
    Wrapper([NativeCall("OCIStmtRelease") EXCEPT
                !.target = stmt_handle, !.uses = {stmt_handle, error_handle},
                !.key = stmt_hash, !.keylen = Len(stmt_hash),
                !.mode = OCIMode_Default],
            error_handle, "ffi::oci_stmt_release")

\* The OCIErrorGet call oci_error_get makes; its own status is not looked at.
ErrorGetCall(error_handle, recordno) ==
    [NativeCall("OCIErrorGet") EXCEPT
        !.target = error_handle, !.uses = {error_handle},
        !.recordno = recordno, !.size = ErrorGet_bufsiz,
        !.htype = OCIHandleType_Error]

\* The OCIErrorGet calls one check_error call issues.
ErrorGetCalls(code, error_handle) ==
    LET recs == error_get_records(code, error_handle)
    IN [k \in 1..Len(recs) |-> ErrorGetCall(error_handle, recs[k])]

\* The OCIErrorGet calls of one check_error call with the status the native
\* layer answers to each; oci_error_get drops that status.
ErrorGetAnswers(code, error_handle, diag) ==
    LET gets == ErrorGetCalls(code, error_handle)
    IN [k \in 1..Len(gets) |-> [gets[k] EXCEPT !.res = diag.status]]

\* ------------------------------------------------------------ the native stub
\* The status codes the stub answers with: success, one code with a canned
\* message, the two codes that consult the diagnostics, and one code that is
\* no sentinel.
NativeStatuses == {0, 100, -1, 1, 2}

\* What the stub does on OCIErrorGet for record 1: it answers 0 and writes the
\* code and the message of the record, or the handle holds no record and it
\* answers 100 (no data) and writes nothing, so that the caller reads back
\* the 0 and the empty buffer it passed in.
Diags ==
    { [status |-> 0, code |-> 1017, msg |-> <<"O", "R", "A", "\n">>],
      [status |-> 100, code |-> 0, msg |-> <<>>] }

HandleOfType(htype) ==
    CASE htype = OCIHandleType_Environment -> "env"
      [] htype = OCIHandleType_Error -> "err"
      [] htype = OCIHandleType_Service -> "svc"
      [] htype = OCIHandleType_Server -> "srv"
      [] htype = OCIHandleType_Session -> "ses"
      [] OTHER -> NULL

\* The handle the native layer writes to the call's out-parameter.
Produced(call) ==
    CASE call.op = "OCIEnvNlsCreate" -> "env"
      [] call.op = "OCIHandleAlloc" -> HandleOfType(call.htype)
      [] call.op = "OCIStmtPrepare2" -> "stmt"
      [] OTHER -> NULL

\* The native layer hands out a handle when it answers success (0) or
\* success-with-info (1).
NativeAllocates(call, st) == Produced(call) # NULL /\ st \in {0, 1}

\* The native layer gives a handle up when a free or a release answers 0.
NativeFrees(call, st) == call.op \in {"OCIHandleFree", "OCIStmtRelease"} /\ st = 0

NativeLive(liveset, call, st) ==
    IF NativeAllocates(call, st) THEN liveset \cup {Produced(call)}
    ELSE IF NativeFrees(call, st) THEN liveset \ {call.target}
    ELSE liveset


\* --------------------------------------------------------------------- state
VARIABLES
    pc,         \* the handler that is running and the index of its next call
    op,         \* the operation the caller asked for last
    held,       \* the value the caller owns: "none", "env", "conn" or "stmt"
    created,    \* the values constructed so far
    result,     \* what the last operation returned to the caller
    pending,    \* the Err that is returned once the locals have been dropped
    unwinding,  \* a panic is in flight
    ptrs,       \* the handle pointers held in locals and struct fields
    username, password, database,   \* the arguments of Connection::new
    stmt_text,  \* the argument of Statement::new
    stmt_hash,  \* Statement.stmt_hash
    execs,      \* the number of execute() calls made
    calls,      \* the log of native calls, in the order issued
    live        \* the handles the native layer has handed out and not freed

vars == <<pc, op, held, created, result, pending, unwinding, ptrs, username,
          password, database, stmt_text, stmt_hash, execs, calls, live, cs>>

Usernames == { <<"u">> }
Passwords == { <<"p", "w">> }
Databases == { <<"d", "b">> }
StmtTexts == { <<"S">>, <<"S", "1">> }

At(h, i) == [h |-> h, i |-> i]
Idle == At("idle", 0)
\* The thread has unwound after a panic.
Panicked == At("panicked", 0)
\* A second panic while unwinding: the process is aborted on the spot.
Aborted == At("aborted", 0)

Ok(v) == [tag |-> "Ok", val |-> v, err |-> NoError]
Err(e) == [tag |-> "Err", val |-> "none", err |-> e]
NoResult == [tag |-> "None", val |-> "none", err |-> NoError]

NullPtrs ==
    [handle |-> NULL, error_handle |-> NULL, server_handle |-> NULL,
     service_handle |-> NULL, session_handle |-> NULL, stmt_handle |-> NULL]

CsIdle ==
    [phase |-> "off", code |-> 0, eh |-> NoHandle, loc |-> "",
     diag |-> [status |-> 100, code |-> 0, msg |-> <<>>], overrun |-> "intact",
     out |-> None, gets |-> <<>>]

InitLifecycle ==
    /\ pc = Idle
    /\ op = "none"
    /\ held = "none"
    /\ created = {}
    /\ result = NoResult
    /\ pending = NoResult
    /\ unwinding = FALSE
    /\ ptrs = NullPtrs
    /\ username = <<>>
    /\ password = <<>>
    /\ database = <<>>
    /\ stmt_text = <<>>
    /\ stmt_hash = <<>>
    /\ execs = 0
    /\ calls = <<>>
    /\ live = {}

Init == InitLifecycle /\ cs = CsIdle

\* ------------------------------------------------------------------ handlers
\* Each handler is the list of wrapper calls its code makes, in order; `bind`
\* names the local or field that receives the handle a call returns.
Step(w, bind) == [w |-> w, bind |-> bind]

\* Environment::new
Environment_new ==
    << Step(oci_env_nls_create(OCIMode_Default), "handle"),
       Step(oci_handle_alloc(ptrs.handle, OCIHandleType_Error), "error_handle") >>

\* Drop for Environment freeing the environment before its error handle.
Environment_drop_env_first ==
    << Step(oci_handle_free(ptrs.handle, OCIHandleType_Environment), "none"),
       Step(oci_handle_free(ptrs.error_handle, OCIHandleType_Error), "none") >>

\* Drop for Environment
Environment_drop ==
    << Step(oci_handle_free(ptrs.error_handle, OCIHandleType_Error), "none"),
       Step(oci_handle_free(ptrs.handle, OCIHandleType_Environment), "none") >>

\* Connection::new with the password set before the username.
Connection_new_password_first(trail) ==
    << Step(oci_handle_alloc(ptrs.handle, OCIHandleType_Server), "server_handle"),
       Step(oci_handle_alloc(ptrs.handle, OCIHandleType_Service), "service_handle"),
       Step(oci_handle_alloc(ptrs.handle, OCIHandleType_Session), "session_handle"),
       Step(oci_server_attach(ptrs.server_handle, ptrs.error_handle, database,
                              OCIMode_Default), "none"),
       Step(oci_attr_set(ptrs.service_handle, OCIHandleType_Service,
                         PtrToHandle(ptrs.server_handle), OCIAttribute_Server,
                         ptrs.error_handle, trail), "none"),
       Step(oci_attr_set(ptrs.session_handle, OCIHandleType_Session,
                         PtrToBytes(password), OCIAttribute_Password,
                         ptrs.error_handle, trail), "none"),
       Step(oci_attr_set(ptrs.session_handle, OCIHandleType_Session,
                         PtrToBytes(username), OCIAttribute_Username,
                         ptrs.error_handle, trail), "none"),
       Step(oci_session_begin(ptrs.service_handle, ptrs.error_handle,
                              ptrs.session_handle, OCICredentialsType_Rdbms,
                              OCIAuthMode_Default), "none"),
       Step(oci_attr_set(ptrs.service_handle, OCIHandleType_Service,
                         PtrToHandle(ptrs.session_handle), OCIAttribute_Session,
                         ptrs.error_handle, trail), "none") >>

\* Connection::new with the server linked into the service context before the
\* service context is allocated.
Connection_new_early_link(trail) ==
    << Step(oci_handle_alloc(ptrs.handle, OCIHandleType_Server), "server_handle"),
       Step(oci_attr_set(ptrs.service_handle, OCIHandleType_Service,
                         PtrToHandle(ptrs.server_handle), OCIAttribute_Server,
                         ptrs.error_handle, trail), "none"),
       Step(oci_handle_alloc(ptrs.handle, OCIHandleType_Service), "service_handle"),
       Step(oci_handle_alloc(ptrs.handle, OCIHandleType_Session), "session_handle"),
       Step(oci_server_attach(ptrs.server_handle, ptrs.error_handle, database,
                              OCIMode_Default), "none"),
       Step(oci_attr_set(ptrs.session_handle, OCIHandleType_Session,
                         PtrToBytes(username), OCIAttribute_Username,
                         ptrs.error_handle, trail), "none"),
       Step(oci_attr_set(ptrs.session_handle, OCIHandleType_Session,
                         PtrToBytes(password), OCIAttribute_Password,
                         ptrs.error_handle, trail), "none"),
       Step(oci_session_begin(ptrs.service_handle, ptrs.error_handle,
                              ptrs.session_handle, OCICredentialsType_Rdbms,
                              OCIAuthMode_Default), "none"),
       Step(oci_attr_set(ptrs.service_handle, OCIHandleType_Service,
                         PtrToHandle(ptrs.session_handle), OCIAttribute_Session,
                         ptrs.error_handle, trail), "none") >>

\* Connection::new linking the server handle as the session of the service
\* context.
Connection_new_session_unlinked(trail) ==
    << Step(oci_handle_alloc(ptrs.handle, OCIHandleType_Server), "server_handle"),
       Step(oci_handle_alloc(ptrs.handle, OCIHandleType_Service), "service_handle"),
       Step(oci_handle_alloc(ptrs.handle, OCIHandleType_Session), "session_handle"),
       Step(oci_server_attach(ptrs.server_handle, ptrs.error_handle, database,
                              OCIMode_Default), "none"),
       Step(oci_attr_set(ptrs.service_handle, OCIHandleType_Service,
                         PtrToHandle(ptrs.server_handle), OCIAttribute_Server,
                         ptrs.error_handle, trail), "none"),
       Step(oci_attr_set(ptrs.session_handle, OCIHandleType_Session,
                         PtrToBytes(username), OCIAttribute_Username,
                         ptrs.error_handle, trail), "none"),
       Step(oci_attr_set(ptrs.session_handle, OCIHandleType_Session,
                         PtrToBytes(password), OCIAttribute_Password,
                         ptrs.error_handle, trail), "none"),
       Step(oci_session_begin(ptrs.service_handle, ptrs.error_handle,
                              ptrs.session_handle, OCICredentialsType_Rdbms,
                              OCIAuthMode_Default), "none"),
       Step(oci_attr_set(ptrs.service_handle, OCIHandleType_Service,
                         PtrToHandle(ptrs.server_handle), OCIAttribute_Session,
                         ptrs.error_handle, trail), "none") >>

\* Connection::new after `let env = try!(env::Environment::new())`
Connection_new(trail) ==
    << Step(oci_handle_alloc(ptrs.handle, OCIHandleType_Server), "server_handle"),
       Step(oci_handle_alloc(ptrs.handle, OCIHandleType_Service), "service_handle"),
       Step(oci_handle_alloc(ptrs.handle, OCIHandleType_Session), "session_handle"),
       Step(oci_server_attach(ptrs.server_handle, ptrs.error_handle, database,
                              OCIMode_Default), "none"),
       Step(oci_attr_set(ptrs.service_handle, OCIHandleType_Service,
                         PtrToHandle(ptrs.server_handle), OCIAttribute_Server,
                         ptrs.error_handle, trail), "none"),
       Step(oci_attr_set(ptrs.session_handle, OCIHandleType_Session,
                         PtrToBytes(username), OCIAttribute_Username,
                         ptrs.error_handle, trail), "none"),
       Step(oci_attr_set(ptrs.session_handle, OCIHandleType_Session,
                         PtrToBytes(password), OCIAttribute_Password,
                         ptrs.error_handle, trail), "none"),
       Step(oci_session_begin(ptrs.service_handle, ptrs.error_handle,
                              ptrs.session_handle, OCICredentialsType_Rdbms,
                              OCIAuthMode_Default), "none"),
       Step(oci_attr_set(ptrs.service_handle, OCIHandleType_Service,
                         PtrToHandle(ptrs.session_handle), OCIAttribute_Session,
                         ptrs.error_handle, trail), "none") >>

\* Drop for Connection freeing the error handle before it ends the session.
Connection_drop_error_handle_first ==
    << Step(oci_handle_free(ptrs.error_handle, OCIHandleType_Error), "none"),
       Step(oci_session_end(ptrs.service_handle, ptrs.error_handle,
                            ptrs.session_handle), "none"),
       Step(oci_server_detach(ptrs.server_handle, ptrs.error_handle), "none"),
       Step(oci_handle_free(ptrs.session_handle, OCIHandleType_Session), "none"),
       Step(oci_handle_free(ptrs.service_handle, OCIHandleType_Service), "none"),
       Step(oci_handle_free(ptrs.server_handle, OCIHandleType_Server), "none") >>

\* Drop for Connection with the server handle freed before the service context.
Connection_drop_server_first ==
    << Step(oci_session_end(ptrs.service_handle, ptrs.error_handle,
                            ptrs.session_handle), "none"),
       Step(oci_server_detach(ptrs.server_handle, ptrs.error_handle), "none"),
       Step(oci_handle_free(ptrs.session_handle, OCIHandleType_Session), "none"),
       Step(oci_handle_free(ptrs.server_handle, OCIHandleType_Server), "none"),
       Step(oci_handle_free(ptrs.service_handle, OCIHandleType_Service), "none") >>

\* Drop for Connection with the last free given the session handle again.
Connection_drop_session_twice ==
    << Step(oci_session_end(ptrs.service_handle, ptrs.error_handle,
                            ptrs.session_handle), "none"),
       Step(oci_server_detach(ptrs.server_handle, ptrs.error_handle), "none"),
       Step(oci_handle_free(ptrs.session_handle, OCIHandleType_Session), "none"),
       Step(oci_handle_free(ptrs.service_handle, OCIHandleType_Service), "none"),
       Step(oci_handle_free(ptrs.session_handle, OCIHandleType_Server), "none") >>

\* The session handle freed under the handle type of the service context.
Connection_drop_session_as_service ==
    << Step(oci_session_end(ptrs.service_handle, ptrs.error_handle,
                            ptrs.session_handle), "none"),
       Step(oci_server_detach(ptrs.server_handle, ptrs.error_handle), "none"),
       Step(oci_handle_free(ptrs.session_handle, OCIHandleType_Service), "none"),
       Step(oci_handle_free(ptrs.service_handle, OCIHandleType_Service), "none"),
       Step(oci_handle_free(ptrs.server_handle, OCIHandleType_Server), "none") >>

\* Drop for Connection
Connection_drop ==
    << Step(oci_session_end(ptrs.service_handle, ptrs.error_handle,
                            ptrs.session_handle), "none"),
       Step(oci_server_detach(ptrs.server_handle, ptrs.error_handle), "none"),
       Step(oci_handle_free(ptrs.session_handle, OCIHandleType_Session), "none"),
       Step(oci_handle_free(ptrs.service_handle, OCIHandleType_Service), "none"),
       Step(oci_handle_free(ptrs.server_handle, OCIHandleType_Server), "none") >>

\* A key made of the first byte of the text.
stmt_hash_of_first_byte(text) == SubSeq(text, 1, 1)

\* A key that is salted with the number of native calls made so far.
stmt_hash_of_salted(text) == text \o << Len(calls) >>

\* `let stmt_hash = stmt_text.clone()`
stmt_hash_of(text) == text

\* Statement::new
Statement_new ==
    << Step(oci_stmt_prepare2(ptrs.service_handle, ptrs.error_handle, stmt_text,
                              stmt_hash_of(stmt_text)), "stmt_handle") >>

\* Statement::execute releasing the statement it has executed.
Statement_execute_releases ==
    << Step(oci_stmt_execute(ptrs.service_handle, ptrs.stmt_handle,
                             ptrs.error_handle), "none"),
       Step(oci_stmt_release(ptrs.stmt_handle, ptrs.error_handle, stmt_hash), "none") >>

\* Statement::execute
Statement_execute ==
    << Step(oci_stmt_execute(ptrs.service_handle, ptrs.stmt_handle,
                             ptrs.error_handle), "none") >>

\* Drop for Statement ending the session before it releases the statement.
Statement_drop_session_first ==
    << Step(oci_session_end(ptrs.service_handle, ptrs.error_handle,
                            ptrs.session_handle), "none"),
       Step(oci_stmt_release(ptrs.stmt_handle, ptrs.error_handle, stmt_hash), "none") >>

\* Drop for Statement releasing the statement without its key.
Statement_drop_untagged ==
    << Step(oci_stmt_release(ptrs.stmt_handle, ptrs.error_handle, <<>>), "none") >>

\* Drop for Statement
Statement_drop ==
    << Step(oci_stmt_release(ptrs.stmt_handle, ptrs.error_handle, stmt_hash), "none") >>

Steps(h, trail) ==
    CASE h = "Environment_new" -> Environment_new
      [] h = "Environment_drop" -> Environment_drop
      [] h = "Connection_new" -> Connection_new(trail)
      [] h = "Connection_drop" -> Connection_drop
      [] h = "Statement_new" -> Statement_new
      [] h = "Statement_execute" -> Statement_execute
      [] h = "Statement_drop" -> Statement_drop

\* The bytes that follow a String's buffer matter to Connection::new alone,
\* the one handler that calls oci_attr_set.
TrailsOf(h) == IF h = "Connection_new" THEN 0..MaxTrail ELSE {0}

IsDrop(h) == h \in {"Environment_drop", "Connection_drop", "Statement_drop"}

\* LocalsOf with the handles of Connection::new rolled back on an early
\* return, as the destructor of a Connection would.
LocalsOf_rollback(h) ==
    CASE h = "Environment_new" -> "none"
      [] h = "Connection_new" -> "Connection_drop"
      [] h = "Statement_new" -> "Connection_drop"
      [] h = "Statement_execute" -> "Statement_drop"

\* LocalsOf with a Statement, built before the prepare call, in scope when
\* Statement::new returns early.
LocalsOf_unprepared_statement(h) ==
    CASE h = "Environment_new" -> "none"
      [] h = "Connection_new" -> "Environment_drop"
      [] h = "Statement_new" -> "Statement_drop"
      [] h = "Statement_execute" -> "Statement_drop"

\* LocalsOf with the Connection alone dropped when execute() returns early:
\* the statement is not released.
LocalsOf_statement_unreleased(h) ==
    CASE h = "Environment_new" -> "none"
      [] h = "Connection_new" -> "Environment_drop"
      [] h = "Statement_new" -> "Connection_drop"
      [] h = "Statement_execute" -> "Connection_drop"

\* LocalsOf with the Connection forgotten when Statement::new returns early.
LocalsOf_conn_forgotten(h) ==
    CASE h = "Environment_new" -> "none"
      [] h = "Connection_new" -> "Environment_drop"
      [] h = "Statement_new" -> "none"
      [] h = "Statement_execute" -> "Statement_drop"

\* The destructor that runs when a handler is left early (try! or a panic):
\* that of the one owned value in scope.  Environment::new holds raw pointers
\* only; Connection::new holds `env`; Statement::new holds `conn`;
\* Statement::execute holds `self`.
LocalsOf(h) ==
    CASE h = "Environment_new" -> "none"
      [] h = "Connection_new" -> "Environment_drop"
      [] h = "Statement_new" -> "Connection_drop"
      [] h = "Statement_execute" -> "Statement_drop"

\* The destructor that runs after a value's own drop(): that of its one field
\* with a destructor (Statement.conn, Connection.env).
FieldsOf(h) ==
    CASE h = "Statement_drop" -> "Connection_drop"
      [] h = "Connection_drop" -> "Environment_drop"
      [] h = "Environment_drop" -> "none"

\* The destructor of a value the caller owns.
DropOf(v) ==
    CASE v = "stmt" -> "Statement_drop"
      [] v = "conn" -> "Connection_drop"
      [] v = "env" -> "Environment_drop"


\* -------------------------------------------------------------- control flow
lifecycleInputs == <<username, password, database, stmt_text, execs>>

Goto(h, i) ==
    /\ pc' = At(h, i)
    /\ UNCHANGED <<held, created, result, pending, unwinding>>

\* A constructor returns Ok(value) to the caller.
ReturnOk(v) ==
    /\ pc' = Idle
    /\ held' = v
    /\ created' = created \cup {v}
    /\ result' = Ok(v)
    /\ UNCHANGED <<pending, unwinding>>

\* The values in scope have been dropped: the panic ends the thread, or the
\* pending Err is returned, or (a plain scope exit) control is back with the
\* caller.
LeaveFrame(pend, unw) ==
    /\ pc' = IF unw THEN Panicked ELSE Idle
    /\ result' = IF ~unw /\ pend.tag = "Err" THEN pend ELSE result
    /\ pending' = IF unw THEN pend ELSE NoResult
    /\ unwinding' = unw
    /\ UNCHANGED <<held, created>>

\* Run the destructor `next` (or none), then leave the frame.
ExitScope(next, pend, unw) ==
    IF next # "none"
    THEN /\ pc' = At(next, 1)
         /\ pending' = pend
         /\ unwinding' = unw
         /\ UNCHANGED <<held, created, result>>
    ELSE LeaveFrame(pend, unw)

\* execute() that hands the Connection of its Statement back to the caller.
Completed_gives_conn_back(h) ==
    CASE h = "Environment_new" ->
            IF op = "Connection::new"
            THEN /\ pc' = At("Connection_new", 1)
                 /\ created' = created \cup {"env"}
                 /\ UNCHANGED <<held, result, pending, unwinding>>
            ELSE ReturnOk("env")
      [] h = "Connection_new" -> ReturnOk("conn")
      [] h = "Statement_new" -> ReturnOk("stmt")
      [] h = "Statement_execute" -> ReturnOk("conn")

\* A constructor or execute() has made all its calls.
Completed(h) ==
    CASE h = "Environment_new" ->
            IF op = "Connection::new"
            THEN /\ pc' = At("Connection_new", 1)
                 /\ created' = created \cup {"env"}
                 /\ UNCHANGED <<held, result, pending, unwinding>>
            ELSE ReturnOk("env")
      [] h = "Connection_new" -> ReturnOk("conn")
      [] h = "Statement_new" -> ReturnOk("stmt")
      [] h = "Statement_execute" -> ReturnOk("stmt")

\* try! left out: the Result of the wrapper is dropped and the constructor
\* carries on.
SetupOutcome_unchecked(h, r, last) ==
    CASE r.tag \in {"None", "Some"} /\ ~last -> Goto(h, pc.i + 1)
      [] r.tag \in {"None", "Some"} /\ last -> Completed(h)
      [] r.tag = "Panic" -> ExitScope(LocalsOf(h), pending, TRUE)

\* try!(wrapper(..)): go on when check_error gave None, return the Err when it
\* gave Some, unwind when it panicked.
SetupOutcome(h, r, last) ==
    CASE r.tag = "None" /\ ~last -> Goto(h, pc.i + 1)
      [] r.tag = "None" /\ last -> Completed(h)
      [] r.tag = "Some" -> ExitScope(LocalsOf(h), Err(r.err), FALSE)
      [] r.tag = "Panic" -> ExitScope(LocalsOf(h), pending, TRUE)

\* A destructor that makes all its calls and panics at its end if one failed.
DropOutcome_deferred(h, r, last) ==
    CASE ~last ->
            /\ pc' = At(h, pc.i + 1)
            /\ unwinding' = (unwinding \/ r.tag # "None")
            /\ UNCHANGED <<held, created, result, pending>>
      [] last -> ExitScope(FieldsOf(h), pending, unwinding \/ r.tag # "None")

\* .ok() without expect(..): the destructor carries on whatever the wrapper
\* returned.
DropOutcome_ignored(h, r, last) ==
    CASE ~last -> Goto(h, pc.i + 1)
      [] last -> ExitScope(FieldsOf(h), pending, unwinding)

\* wrapper(..).ok().expect(..) in a destructor: go on when check_error gave
\* None; otherwise panic, which skips the rest of this destructor and still
\* drops the fields, or aborts the process when a panic is already in flight.
DropOutcome(h, r, last) ==
    CASE r.tag = "None" /\ ~last -> Goto(h, pc.i + 1)
      [] r.tag = "None" /\ last -> ExitScope(FieldsOf(h), pending, unwinding)
      [] r.tag # "None" /\ unwinding ->
            /\ pc' = Aborted
            /\ UNCHANGED <<held, created, result, pending, unwinding>>
      [] r.tag # "None" /\ ~unwinding -> ExitScope(FieldsOf(h), pending, TRUE)

\* One wrapper call of handler h: the native call, the OCIErrorGet calls of
\* check_error, the binding of the returned handle, and the transfer of
\* control.
HandlerStep(h) ==
    /\ \E st \in NativeStatuses, diag \in Diags, trail \in TrailsOf(h) :
         LET step == Steps(h, trail)[pc.i]
             call == [step.w.call EXCEPT !.res = st]
             r == check_error(st, step.w.eh, step.w.loc, diag)
             last == pc.i = Len(Steps(h, trail))
         IN /\ calls' = calls \o <<call>> \o ErrorGetCalls(st, step.w.eh)
            /\ live' = NativeLive(live, call, st)
            /\ ptrs' = IF r.tag = "None" /\ step.bind # "none"
                       THEN [ptrs EXCEPT ![step.bind] = Produced(call)]
                       ELSE ptrs
            /\ stmt_hash' = IF r.tag = "None" /\ h = "Statement_new"
                            THEN stmt_hash_of(stmt_text)
                            ELSE stmt_hash
            /\ IF IsDrop(h) THEN DropOutcome(h, r, last) ELSE SetupOutcome(h, r, last)
    /\ UNCHANGED <<op, lifecycleInputs, cs>>

\* ------------------------------------------------------------------- actions
\* The caller: Environment::new()
CallEnvironmentNew ==
    /\ pc = Idle /\ op = "none"
    /\ op' = "Environment::new"
    /\ pc' = At("Environment_new", 1)
    /\ UNCHANGED <<held, created, result, pending, unwinding, ptrs,
                   lifecycleInputs, stmt_hash, calls, live, cs>>

\* The caller: Connection::new(username, password, database)
CallConnectionNew ==
    /\ pc = Idle /\ op = "none"
    /\ \E u \in Usernames, p \in Passwords, d \in Databases :
         /\ username' = u
         /\ password' = p
         /\ database' = d
    /\ op' = "Connection::new"
    /\ pc' = At("Environment_new", 1)
    /\ UNCHANGED <<held, created, result, pending, unwinding, ptrs, stmt_text,
                   execs, stmt_hash, calls, live, cs>>

\* The caller: conn.new_statement(stmt_text), which moves conn into
\* Statement::new.
CallNewStatement ==
    /\ pc = Idle /\ held = "conn"
    /\ \E t \in StmtTexts : stmt_text' = t
    /\ op' = "Statement::new"
    /\ held' = "none"
    /\ pc' = At("Statement_new", 1)
    /\ UNCHANGED <<created, result, pending, unwinding, ptrs, username, password,
                   database, execs, stmt_hash, calls, live, cs>>

\* The caller: stmt.execute(), which moves stmt into execute.
CallExecute ==
    /\ pc = Idle /\ held = "stmt"
    /\ execs < MaxExec
    /\ execs' = execs + 1
    /\ op' = "execute"
    /\ held' = "none"
    /\ pc' = At("Statement_execute", 1)
    /\ UNCHANGED <<created, result, pending, unwinding, ptrs, username, password,
                   database, stmt_text, stmt_hash, calls, live, cs>>

\* The caller's value goes out of scope.
ScopeExit ==
    /\ pc = Idle /\ held # "none"
    /\ op' = "drop"
    /\ held' = "none"
    /\ pc' = At(DropOf(held), 1)
    /\ UNCHANGED <<created, result, pending, unwinding, ptrs, lifecycleInputs,
                   stmt_hash, calls, live, cs>>

EnvironmentNewStep == pc.h = "Environment_new" /\ HandlerStep("Environment_new")
ConnectionNewStep == pc.h = "Connection_new" /\ HandlerStep("Connection_new")
StatementNewStep == pc.h = "Statement_new" /\ HandlerStep("Statement_new")
StatementExecuteStep == pc.h = "Statement_execute" /\ HandlerStep("Statement_execute")
StatementDropStep == pc.h = "Statement_drop" /\ HandlerStep("Statement_drop")
ConnectionDropStep == pc.h = "Connection_drop" /\ HandlerStep("Connection_drop")
EnvironmentDropStep == pc.h = "Environment_drop" /\ HandlerStep("Environment_drop")

Next ==
    \/ CallEnvironmentNew
    \/ CallConnectionNew
    \/ CallNewStatement
    \/ CallExecute
    \/ ScopeExit
    \/ EnvironmentNewStep
    \/ ConnectionNewStep
    \/ StatementNewStep
    \/ StatementExecuteStep
    \/ StatementDropStep
    \/ ConnectionDropStep
    \/ EnvironmentDropStep

Spec == Init /\ [][Next]_vars

\* ------------------------------------------------ check_error on its own
\* The status codes check_error is applied to.
StatusCodes == (-MaxCode .. MaxCode) \cup {99, 100, 101, -3123, -3124}

Locations == {"ffi::oci_handle_alloc", "ffi::oci_stmt_execute"}

ErrorHandles == {NoHandle, "err"}

\* A message one byte too long for the buffer with_c_str provides.
LongMsg == [i \in 1..BUF_LEN |-> IF i = 1 THEN "O" ELSE "x"]

\* The diagnostic records check_error is applied to: those of the stub, one
\* with blanks on both sides, one that is not UTF-8 and one that is long.
DiagsCheckStatus ==
    Diags \cup { [status |-> 0, code |-> 942, msg |-> <<" ", "t", " ">>],
                 [status |-> 0, code |-> 1, msg |-> <<"a", NotUtf8>>],
                 [status |-> 0, code |-> 6550, msg |-> LongMsg] }

\* What reading an overrun buffer back can give.
Overruns == {"intact", "cut"}

InitCheckStatus ==
    /\ InitLifecycle
    /\ \E code \in StatusCodes, eh \in ErrorHandles, loc \in Locations,
          diag \in DiagsCheckStatus, overrun \in Overruns :
         cs = [CsIdle EXCEPT !.phase = "call", !.code = code, !.eh = eh,
                             !.loc = loc, !.diag = diag, !.overrun = overrun]

\* check_error(code, error_handle, location)
CheckStatus ==
    /\ cs.phase = "call"
    /\ cs' = [cs EXCEPT !.phase = "done",
                        !.out = check_error(cs.code, cs.eh, cs.loc, cs.diag),
                        !.gets = ErrorGetAnswers(cs.code, cs.eh, cs.diag)]
    /\ UNCHANGED <<pc, op, held, created, result, pending, unwinding, ptrs,
                   lifecycleInputs, stmt_hash, calls, live>>

NextCheckStatus == CheckStatus

SpecCheckStatus == InitCheckStatus /\ [][NextCheckStatus]_vars


\* ------------------------------------------------------ reading the call log
\* A short name for a native call: the entry point, with the handle type of an
\* allocation or a free and the attribute of an attribute-set.
TypeName(htype) ==
    CASE htype = OCIHandleType_Environment -> "Environment"
      [] htype = OCIHandleType_Error -> "ErrorHandle"
      [] htype = OCIHandleType_Service -> "Service"
      [] htype = OCIHandleType_Server -> "Server"
      [] htype = OCIHandleType_Session -> "Session"
      [] OTHER -> "?"

Label(c) ==
    CASE c.op = "OCIHandleAlloc" -> <<"alloc", TypeName(c.htype)>>
      [] c.op = "OCIHandleFree" -> <<"free", TypeName(c.htype)>>
      [] c.op = "OCIAttrSet" ->
            ( CASE c.attr = OCIAttribute_Server -> <<"link-server", TypeName(c.htype)>>
                [] c.attr = OCIAttribute_Session -> <<"link-session", TypeName(c.htype)>>
                [] c.attr = OCIAttribute_Username -> <<"set-username", TypeName(c.htype)>>
                [] c.attr = OCIAttribute_Password -> <<"set-password", TypeName(c.htype)>>
                [] OTHER -> <<"attr-set", "?">> )
      [] c.op = "OCIServerAttach" -> <<"server-attach", "">>
      [] c.op = "OCISessionBegin" -> <<"session-begin", "">>
      [] c.op = "OCISessionEnd" -> <<"session-end", "">>
      [] c.op = "OCIServerDetach" -> <<"server-detach", "">>
      [] OTHER -> <<c.op, "">>

\* The calls of the log whose entry point is in ops, in order.
CallsOf(ops) == SelectSeq(calls, LAMBDA c : c.op \in ops)

LabelsOf(s) == [k \in 1..Len(s) |-> Label(s[k])]

\* The log without the diagnostic retrievals that check_error makes.
ProtocolCalls == SelectSeq(calls, LAMBDA c : c.op # "OCIErrorGet")

IsPrefix(s, t) == Len(s) <= Len(t) /\ s = SubSeq(t, 1, Len(s))

AllOk(s) == \A k \in 1..Len(s) : s[k].res = 0

ConnTeardownOps == {"OCISessionEnd", "OCIServerDetach", "OCIHandleFree"}
TeardownOps == ConnTeardownOps \cup {"OCIStmtRelease"}
SetupOps == {"OCIEnvNlsCreate", "OCIHandleAlloc", "OCIServerAttach", "OCIAttrSet",
             "OCISessionBegin", "OCIStmtPrepare2"}

\* No handler is running: control is with the caller, or the process has ended.
AtRest == pc.h \in {"idle", "panicked", "aborted"}

\* The handles whose allocating call answered success, and those given up.
SuccessfullyAllocated ==
    { Produced(calls[k]) : k \in { j \in 1..Len(calls) :
                                     Produced(calls[j]) # NULL /\ calls[j].res = 0 } }
Freed ==
    { calls[k].target : k \in { j \in 1..Len(calls) :
                                  /\ calls[j].op \in {"OCIHandleFree", "OCIStmtRelease"}
                                  /\ calls[j].res = 0 } }


\* ------------------------------------------------- two connections in a row
\* The caller starts over once a statement and its connection have come and
\* gone: a second Connection::new and Statement::new follow the first, and
\* the log of native calls runs on.
SecondConnection ==
    /\ pc = Idle /\ held = "none" /\ op = "drop" /\ "stmt" \in created
    /\ Len(CallsOf({"OCIEnvNlsCreate"})) = 1
    /\ op' = "none"
    /\ created' = {}
    /\ result' = NoResult
    /\ ptrs' = NullPtrs
    /\ username' = <<>>
    /\ password' = <<>>
    /\ database' = <<>>
    /\ stmt_text' = <<>>
    /\ stmt_hash' = <<>>
    /\ execs' = 0
    /\ UNCHANGED <<pc, held, pending, unwinding, calls, live, cs>>

\* The native layer answers success to the call made in this step, if any.
AnsweredOk == AllOk(calls')

NextTwoConnections ==
    \/ CallConnectionNew
    \/ CallNewStatement
    \/ CallExecute
    \/ ScopeExit
    \/ EnvironmentNewStep /\ AnsweredOk
    \/ ConnectionNewStep /\ AnsweredOk
    \/ StatementNewStep /\ AnsweredOk
    \/ StatementExecuteStep /\ AnsweredOk
    \/ StatementDropStep /\ AnsweredOk
    \/ ConnectionDropStep /\ AnsweredOk
    \/ EnvironmentDropStep /\ AnsweredOk
    \/ SecondConnection

SpecTwoConnections == Init /\ [][NextTwoConnections]_vars

\* ===================================================================== claims
DestructionOrder ==
    << <<"session-end", "">>, <<"server-detach", "">>, <<"free", "Session">>,
       <<"free", "Service">>, <<"free", "Server">>, <<"free", "ErrorHandle">>,
       <<"free", "Environment">> >>

\* The Connection that was built is gone: no handler runs and the caller owns
\* nothing.
ConnGone == "conn" \in created /\ AtRest /\ held = "none"

\* C1: for a Connection that Connection::new returned, as long as every
\* teardown call answers success, the session-end, server-detach and
\* handle-free calls issued so far are a prefix of session-end, server-detach,
\* free(Session), free(Service), free(Server), free(ErrorHandle),
\* free(Environment), and once the Connection is gone (dropped directly or with
\* the Statement that owns it) they are exactly that sequence.
C1_DestructionOrder ==
    ("conn" \in created /\ AllOk(CallsOf(TeardownOps))) =>
        /\ IsPrefix(LabelsOf(CallsOf(ConnTeardownOps)), DestructionOrder)
        /\ ConnGone => LabelsOf(CallsOf(ConnTeardownOps)) = DestructionOrder

\* A Statement was built, executed and dropped, and all seven teardown calls
\* were made and answered success.
C1_Witness ==
    /\ pc = Idle /\ op = "drop" /\ "stmt" \in created /\ execs > 0
    /\ AllOk(CallsOf(TeardownOps))
    /\ Len(CallsOf(ConnTeardownOps)) = Len(DestructionOrder)

SetupOrder ==
    << <<"server-attach", "">>, <<"link-server", "Service">>,
       <<"set-username", "Session">>, <<"set-password", "Session">>,
       <<"session-begin", "">>, <<"link-session", "Service">> >>

ConnSetupOps == {"OCIServerAttach", "OCIAttrSet", "OCISessionBegin"}

ConnTeardownOrder == SubSeq(DestructionOrder, 1, 5)

\* The teardown calls of Drop for Connection: session-end, server-detach and
\* the frees of the session, service and server handles.
ConnTeardownCalls ==
    SelectSeq(calls, LAMBDA c :
        \/ c.op \in {"OCISessionEnd", "OCIServerDetach"}
        \/ /\ c.op = "OCIHandleFree"
           /\ c.htype \in {OCIHandleType_Session, OCIHandleType_Service,
                           OCIHandleType_Server})

\* C3 as stated: once a Connection that was built is gone, session-end,
\* server-detach and the three frees have been issued in that order, once each,
\* however the Connection was used.
C3_Original == ConnGone => LabelsOf(ConnTeardownCalls) = ConnTeardownOrder

\* C3, amended: the same, provided every teardown call (the statement release
\* and the Connection's own five calls) answered success.
C3_TeardownOnce ==
    (ConnGone /\ AllOk(CallsOf({"OCIStmtRelease"})) /\ AllOk(ConnTeardownCalls)) =>
        LabelsOf(ConnTeardownCalls) = ConnTeardownOrder

\* execute() failed and returned its error after the Statement and its
\* Connection were torn down.
C3_Witness ==
    /\ pc = Idle /\ op = "execute" /\ result.tag = "Err" /\ ConnGone
    /\ AllOk(ConnTeardownCalls)
    /\ Len(ConnTeardownCalls) = 5

\* C4: no handle is passed to OCIHandleFree twice and no statement handle is
\* passed to OCIStmtRelease twice.
C4_NoDoubleFree ==
    \A i, j \in 1..Len(calls) :
        (i < j /\ calls[i].op \in {"OCIHandleFree", "OCIStmtRelease"}
               /\ calls[i].op = calls[j].op)
            => calls[i].target # calls[j].target

\* Statement, Connection and Environment have all been torn down: one release
\* and five frees are in the log.
C4_Witness ==
    /\ AtRest
    /\ Len(CallsOf({"OCIStmtRelease"})) = 1
    /\ Len(CallsOf({"OCIHandleFree"})) = 5
    /\ live = {}

\* C5: every handle passed to a native call was produced by an earlier native
\* call that answered success (status 0).
C5_UseAfterAlloc ==
    \A i \in 1..Len(calls) : \A hd \in calls[i].uses :
        \E j \in 1..(i - 1) : Produced(calls[j]) = hd /\ calls[j].res = 0

\* A prepared statement was executed: all six kinds of handle have been used.
C5_Witness ==
    \E i \in 1..Len(calls) :
        /\ calls[i].op = "OCIStmtExecute" /\ calls[i].res = 0
        /\ calls[i].uses = {"svc", "stmt", "err"}


\* C6 as stated: whenever the environment handle is freed, every handle that
\* was successfully allocated as its child before has been freed before.
C6_ChildrenFreedFirst ==
    \A i \in 1..Len(calls) :
        (calls[i].op = "OCIHandleFree" /\ calls[i].target = "env" /\ calls[i].res = 0) =>
            \A j \in 1..(i - 1) :
                (calls[j].op = "OCIHandleAlloc" /\ calls[j].res = 0) =>
                    \E k \in (j + 1)..(i - 1) :
                        /\ calls[k].op = "OCIHandleFree"
                        /\ calls[k].target = Produced(calls[j])
                        /\ calls[k].res = 0

\* Environment::new (called by the caller or by Connection::new) has returned
\* an error.
EnvironmentNewFailed ==
    /\ pc = Idle /\ result.tag = "Err"
    /\ op \in {"Environment::new", "Connection::new"}
    /\ "env" \notin created

\* C7 as stated: when Environment::new fails, the caller gets no Environment
\* and no Connection, and every handle that a native call of the attempt
\* successfully allocated has been freed.
C7_FailedEnvironmentFreesAll ==
    EnvironmentNewFailed => (held = "none" /\ SuccessfullyAllocated \subseteq Freed)

\* The location tag each wrapper gives to check_error.
LocationOfOp(o) ==
    CASE o = "OCIEnvNlsCreate" -> "ffi::oci_env_nls_create"
      [] o = "OCIHandleAlloc" -> "ffi::oci_handle_alloc"
      [] o = "OCIServerAttach" -> "ffi::oci_server_attach"
      [] o = "OCIAttrSet" -> "ffi::oci_attr_set"
      [] o = "OCISessionBegin" -> "ffi::oci_session_begin"
      [] o = "OCIStmtPrepare2" -> "ffi::oci_stmt_prepare2"
      [] OTHER -> "?"

\* The error handle a logged call was given, if any.
ErrorHandleOf(c) == IF "err" \in c.uses THEN "err" ELSE NoHandle

FailedSetupCalls ==
    { i \in 1..Len(calls) : calls[i].op \in SetupOps /\ calls[i].res # 0 }

FirstFailedSetupCall == CHOOSE i \in FailedSetupCalls : \A j \in FailedSetupCalls : i <= j

\* A constructor was the last operation asked for, one of its setup calls
\* failed, and it is over.
ConstructorFailed ==
    /\ AtRest
    /\ op \in {"Environment::new", "Connection::new", "Statement::new"}
    /\ FailedSetupCalls # {}

\* The constructor returned the error that check_error gives for its first
\* failing setup call: that call's location tag, and its status code with the
\* canned message or the diagnostic record of the error handle.
ReturnedFirstError ==
    LET c == calls[FirstFailedSetupCall] IN
    /\ pc = Idle /\ result.tag = "Err" /\ held = "none"
    /\ result.err.location = LocationOfOp(c.op)
    /\ \E d \in Diags :
          Some(result.err) = check_error(c.res, ErrorHandleOf(c), LocationOfOp(c.op), d)

NoLaterSetupCall ==
    \A i, j \in 1..Len(calls) :
        (i < j /\ calls[i].op \in SetupOps /\ calls[i].res # 0)
            => calls[j].op \notin SetupOps

\* C8 as stated: no setup call (environment create, allocation, attach,
\* attribute-set, session-begin, prepare) is issued after a setup call that
\* answered a non-success status, and the constructor returns the error of
\* that first failing call.
C8_Original == NoLaterSetupCall /\ (ConstructorFailed => ReturnedFirstError)

\* C8, amended: no setup call is issued after a setup call that answered a
\* non-success status; the constructor returns the error of that first failing
\* call when the status is one of the six sentinel codes and every cleanup call
\* of the error path answers success, and otherwise it panics and returns
\* nothing.
C8_FirstFailureAborts ==
    /\ NoLaterSetupCall
    /\ ConstructorFailed =>
          IF /\ calls[FirstFailedSetupCall].res \in {100, -2, 99, -3123, -1, 1}
             /\ AllOk(CallsOf(TeardownOps))
          THEN ReturnedFirstError
          ELSE pc \in {Panicked, Aborted} /\ result.tag # "Err"

\* Connection::new returned the error of a failing session-begin, five setup
\* calls of the connection protocol having succeeded before it.
C8_Witness ==
    /\ pc = Idle /\ op = "Connection::new" /\ result.tag = "Err"
    /\ result.err.location = "ffi::oci_session_begin"
    /\ Len(CallsOf({"OCIAttrSet"})) = 3

\* C9: check_error returns no error for status code 0, whatever error handle,
\* diagnostic record and location tag it is given.
C9_SuccessIsNone == (cs.phase = "done" /\ cs.code = 0) => cs.out = None

\* check_error was applied to code 0 with an error handle whose diagnostic
\* record holds an error.
C9_Witness ==
    /\ cs.phase = "done" /\ cs.code = 0 /\ cs.eh # NoHandle /\ cs.diag.code # 0
    /\ cs.out = None

C10_CannedText(code) ==
    CASE code = 100 -> <<"N", "o", " ", "d", "a", "t", "a">>
      [] code = -2 -> <<"I", "n", "v", "a", "l", "i", "d", " ", "h", "a", "n", "d", "l", "e">>
      [] code = 99 -> <<"N", "e", "e", "d", " ", "d", "a", "t", "a">>
      [] code = -3123 ->
            <<"S", "t", "i", "l", "l", " ", "e", "x", "e", "c", "u", "t", "i", "n", "g">>

\* C10: for the status codes 100, -2, 99 and -3123 check_error returns an
\* error whose code is the status code, whose message is the canned text and
\* whose location is the tag supplied, with or without an error handle and
\* whatever diagnostic record the handle holds.
C10_CannedCodes ==
    (cs.phase = "done" /\ cs.code \in {100, -2, 99, -3123}) =>
        cs.out = [tag |-> "Some",
                  err |-> [code |-> cs.code, message |-> C10_CannedText(cs.code),
                           location |-> cs.loc]]

\* check_error was applied to code 100 with an error handle whose diagnostic
\* record holds an error.
C10_Witness ==
    /\ cs.phase = "done" /\ cs.code = 100 /\ cs.eh # NoHandle /\ cs.diag.code # 0
    /\ cs.out.tag = "Some" /\ cs.out.err.code = 100

\* The check_error call under test was given an error handle and one of the
\* two status codes whose error is taken from the diagnostics.
DiagnosedCall ==
    cs.phase = "done" /\ cs.code \in {-1, 1} /\ cs.eh # NoHandle

\* C11: for the status codes -1 and 1 with an error handle supplied,
\* check_error returns an error whose code and message are exactly those one
\* OCIErrorGet call for record 1 on that handle returned and whose location
\* is the supplied tag, and no other record is asked for.
C11_DiagnosedError ==
    DiagnosedCall =>
        /\ cs.out = Some(OracleError(cs.diag.code, cs.diag.msg, cs.loc))
        /\ Len(cs.gets) = 1
        /\ cs.gets[1].op = "OCIErrorGet"
        /\ cs.gets[1].target = cs.eh
        /\ cs.gets[1].recordno = 1

\* The native entry points whose wrappers hand check_error no error handle.
NoHandleOps == {"OCIEnvNlsCreate", "OCIHandleAlloc", "OCIHandleFree"}

\* No OCIErrorGet call is made for a call of NoHandleOps: the diagnostics are
\* fetched right after the call they are about.
NoDiagnosticsFetched ==
    \A i \in 1..Len(calls) :
        (calls[i].op \in NoHandleOps /\ i < Len(calls))
            => calls[i + 1].op # "OCIErrorGet"

\* The canned error of status -1 or 1.
C12_Fallback(code, location) ==
    OracleError(code,
                IF code = -1
                THEN <<"E", "r", "r", "o", "r", " ", "w", "i", "t", "h", " ",
                       "n", "o", " ", "d", "e", "t", "a", "i", "l", "s">>
                ELSE <<"S", "u", "c", "c", "e", "s", "s", " ", "w", "i", "t", "h",
                       " ", "i", "n", "f", "o">>,
                location)

\* C12: environment creation, handle allocation and handle free never give
\* check_error an error handle, so no diagnostics are fetched for them, and a
\* constructor that returns the error of such a call answering -1 or 1
\* returns the canned fallback: code -1 with "Error with no details", code 1
\* with "Success with info".
C12_FallbackWithoutHandle ==
    /\ NoDiagnosticsFetched
    /\ (ConstructorFailed /\ pc = Idle /\ result.tag = "Err") =>
          LET c == calls[FirstFailedSetupCall] IN
          (c.op \in NoHandleOps /\ c.res \in {-1, 1})
              => result.err = C12_Fallback(c.res, LocationOfOp(c.op))

\* Connection::new returned the canned error of an allocation that answered
\* -1, and the environment was freed on the way out.
C12_Witness ==
    /\ pc = Idle /\ op = "Connection::new" /\ result.tag = "Err"
    /\ calls[FirstFailedSetupCall].op = "OCIHandleAlloc"
    /\ calls[FirstFailedSetupCall].res = -1
    /\ result.err.code = -1
    /\ Len(result.err.message) = 21
    /\ Len(CallsOf({"OCIHandleFree"})) = 2

\* The status codes check_error has a match arm for.
C13_KnownCodes == {0, 100, -2, 99, -3123, -1, 1}

\* C13: for every status code outside {0, 100, -2, 99, -3123, -1, 1}
\* check_error panics: it returns neither no error nor an error value.
C13_UnknownCodeIsFatal ==
    (cs.phase = "done" /\ cs.code \notin C13_KnownCodes)
        => (cs.out = Panic /\ cs.out.tag \notin {"None", "Some"})

\* check_error was applied to a status code next to a known one, with an
\* error handle that holds a diagnostic record, and panicked.
C13_Witness ==
    /\ cs.phase = "done" /\ cs.code \in {2, -3, 101, -3124}
    /\ cs.eh # NoHandle /\ cs.diag.code # 0
    /\ cs.out.tag = "Panic"

\* C14: check_error issues OCIErrorGet only when the status code is -1 or 1
\* and an error handle was supplied; never for status 0, nor for the canned
\* codes 100, -2, 99 and -3123.
C14_DiagnosticsOnlyOnFailure ==
    (cs.phase = "done" /\ cs.gets # <<>>)
        => (cs.code \in {-1, 1} /\ cs.eh # NoHandle)

\* The positions in the log of the successful prepare calls.
Prepared ==
    { j \in 1..Len(calls) : calls[j].op = "OCIStmtPrepare2" /\ calls[j].res = 0 }

\* C15: every OCIStmtRelease call is given the key, bytes and length, that
\* was given to the OCIStmtPrepare2 call that produced the handle it
\* releases, whatever the statement text and however many executes were made
\* in between.
C15_ReleaseKeyIsPrepareKey ==
    \A i \in 1..Len(calls) :
        calls[i].op = "OCIStmtRelease" =>
            \E j \in Prepared :
                /\ j < i
                /\ Produced(calls[j]) = calls[i].target
                /\ calls[i].key = calls[j].key
                /\ calls[i].keylen = calls[j].keylen

\* A statement with a two byte text was prepared, executed MaxExec times and
\* released.
C15_Witness ==
    /\ Len(CallsOf({"OCIStmtExecute"})) = MaxExec
    /\ Len(CallsOf({"OCIStmtRelease"})) = 1
    /\ CallsOf({"OCIStmtRelease"})[1].keylen = 2

\* C16: every OCIStmtExecute call asks for 0 iterations at row offset 0 and
\* is made on the handle of an earlier OCIStmtPrepare2 call that answered
\* success and was given the text of the statement, with the length of that
\* text, and the key derived from it (the text itself); there is no execute
\* call without such a prepare call.
C16_PrepareThenExecute ==
    \A i \in 1..Len(calls) :
        calls[i].op = "OCIStmtExecute" =>
            /\ calls[i].iters = 0
            /\ calls[i].rowoff = 0
            /\ \E j \in Prepared :
                  /\ j < i
                  /\ calls[j].text = stmt_text
                  /\ calls[j].textlen = Len(stmt_text)
                  /\ calls[j].key = stmt_text
                  /\ calls[i].target = Produced(calls[j])

\* Statement::new then execute(): the prepare call and the execute call both
\* answered success.
C16_Witness ==
    /\ pc = Idle /\ op = "execute" /\ result = Ok("stmt")
    /\ Prepared # {}
    /\ AllOk(CallsOf({"OCIStmtExecute"}))
    /\ Len(CallsOf({"OCIStmtExecute"})) = 1

ExecuteCalls == CallsOf({"OCIStmtExecute"})
ReleaseCalls == CallsOf({"OCIStmtRelease"})

\* The Statement the caller holds is the one Statement::new built: its handle
\* is the one the prepare call produced, its key the one that call was given,
\* and its connection the one that call was made on.
SameStatement ==
    \E j \in Prepared :
        /\ ptrs.stmt_handle = Produced(calls[j])
        /\ stmt_hash = calls[j].key
        /\ calls[j].uses = {ptrs.service_handle, ptrs.error_handle}
        /\ ptrs.service_handle = "svc" /\ ptrs.error_handle = "err"
        /\ ptrs.server_handle = "srv" /\ ptrs.session_handle = "ses"
        /\ ptrs.handle = "env"

\* C18: while the caller holds a statement, after n execute() calls that all
\* returned it, it is the statement Statement::new built (same handle, key
\* and connection), exactly n OCIStmtExecute calls and no release or
\* connection teardown call have been made; once the statement is gone
\* exactly one OCIStmtRelease call has been made, and still n execute calls.
C18_ExecuteReturnsSelf ==
    /\ (pc = Idle /\ held = "stmt") =>
          /\ SameStatement
          /\ Len(ExecuteCalls) = execs
          /\ AllOk(ExecuteCalls)
          /\ CallsOf(TeardownOps) = <<>>
    /\ (AtRest /\ "stmt" \in created /\ held # "stmt") =>
          /\ Len(ReleaseCalls) = 1
          /\ Len(ExecuteCalls) = execs

\* The statement went out of scope after MaxExec chained executes that all
\* succeeded.
C18_Witness ==
    /\ pc = Idle /\ held = "none" /\ op = "drop" /\ "stmt" \in created
    /\ execs = MaxExec
    /\ Len(ExecuteCalls) = MaxExec /\ AllOk(ExecuteCalls)
    /\ Len(ReleaseCalls) = 1

\* C19: no OCIStmtRelease call is made after a teardown call of the
\* connection (session-end, server-detach, handle-free).
C19_ReleaseBeforeConnTeardown ==
    \A i, j \in 1..Len(calls) :
        (i < j /\ calls[i].op \in ConnTeardownOps)
            => calls[j].op # "OCIStmtRelease"

\* A statement was released and its connection torn down after it, down to
\* the free of the environment.
C19_Witness ==
    /\ Len(ReleaseCalls) = 1
    /\ Len(CallsOf({"OCISessionEnd"})) = 1
    /\ Len(CallsOf({"OCIHandleFree"})) = 5

FailedTeardownCalls ==
    { i \in 1..Len(calls) : calls[i].op \in TeardownOps /\ calls[i].res # 0 }

\* C20: once a teardown call (statement-release, session-end, server-detach,
\* handle-free) has answered a non-success status, a panic is in flight or
\* has ended the thread or the process: control is never back with the
\* caller, and no error value is returned.
C20_TeardownFailureIsFatal ==
    FailedTeardownCalls # {} =>
        /\ unwinding \/ pc = Aborted
        /\ pc # Idle
        /\ result.tag # "Err"

\* A server-detach answered a non-success status and the thread has unwound.
C20_Witness ==
    /\ pc = Panicked
    /\ \E i \in FailedTeardownCalls : calls[i].op = "OCIServerDetach"

PrepareCalls == CallsOf({"OCIStmtPrepare2"})

\* C17: the key is a function of the statement text alone: any two
\* OCIStmtPrepare2 calls that are given the same text, whatever connection
\* each is made on and whatever came before it, are given the same key,
\* bytes and length.
C17_KeyDependsOnTextOnly ==
    \A i, j \in 1..Len(PrepareCalls) :
        PrepareCalls[i].text = PrepareCalls[j].text =>
            /\ PrepareCalls[i].key = PrepareCalls[j].key
            /\ PrepareCalls[i].keylen = PrepareCalls[j].keylen

\* Two statements with the same text were prepared on two connections, the
\* first of them executed before it was released and the second not.
C17_Witness ==
    /\ Len(PrepareCalls) = 2
    /\ PrepareCalls[1].text = PrepareCalls[2].text
    /\ Len(CallsOf({"OCIEnvNlsCreate"})) = 2
    /\ pc = Idle /\ held = "stmt" /\ execs = 0
    /\ ExecuteCalls # <<>>

\* The eleven steps of Connection::new, Environment::new included, in order.
ConnectionNewSteps == Environment_new \o Connection_new(0)

\* The location tag the wrapper of step k carries.
StepTag(k) == ConnectionNewSteps[k].w.loc

\* The step a caller reads off a tag: a step that carries it.
StepOfTag(tag) ==
    CHOOSE k \in 1..Len(ConnectionNewSteps) : StepTag(k) = tag

\* Connection::new returned the Err of one of its setup calls.
ConnectionNewReturnedErr ==
    /\ pc = Idle /\ op = "Connection::new" /\ result.tag = "Err"
    /\ FailedSetupCalls # {}

\* The step of Connection::new that failed: the setup calls are made one per
\* step, so it is the number of setup calls made.
FailedStep == Len(CallsOf(SetupOps))

\* C21 as stated: the location tag of an error returned by Connection::new
\* determines which of the eleven steps failed: the step read off the tag is
\* the step that failed, and no two steps carry the same tag.
C21_Original ==
    ConnectionNewReturnedErr =>
        /\ StepOfTag(result.err.location) = FailedStep
        /\ \A k \in 1..Len(ConnectionNewSteps) :
              k # FailedStep => StepTag(k) # result.err.location

\* The native entry point a location tag names.
C21_OpOfTag(tag) ==
    CASE tag = "ffi::oci_env_nls_create" -> "OCIEnvNlsCreate"
      [] tag = "ffi::oci_handle_alloc" -> "OCIHandleAlloc"
      [] tag = "ffi::oci_server_attach" -> "OCIServerAttach"
      [] tag = "ffi::oci_attr_set" -> "OCIAttrSet"
      [] tag = "ffi::oci_session_begin" -> "OCISessionBegin"
      [] OTHER -> "?"

\* C21, amended: the location tag of an error returned by Connection::new
\* names the native entry point whose call failed, one of five; the four
\* allocations share one tag and the four attribute-sets share another.
C21_TagNamesEntryPoint ==
    ConnectionNewReturnedErr =>
        /\ C21_OpOfTag(result.err.location) = calls[FirstFailedSetupCall].op
        /\ (calls[FirstFailedSetupCall].op = "OCIHandleAlloc"
              => FailedStep \in {2, 3, 4, 5})
        /\ (calls[FirstFailedSetupCall].op = "OCIAttrSet"
              => FailedStep \in {7, 8, 9, 11})

\* Connection::new returned the error of the allocation of the service
\* context, its fourth step, with the tag all allocations carry.
C21_Witness ==
    /\ ConnectionNewReturnedErr
    /\ FailedStep = 4
    /\ result.err.location = "ffi::oci_handle_alloc"

\* C22: the OCIAttrSet calls for Username and Password carry the byte length
\* of the username and of the password given to Connection::new as their
\* size, whatever bytes follow the strings in memory, and the calls for
\* Server and Session carry size 0.
C22_AttrSetSizes ==
    \A i \in 1..Len(calls) :
        calls[i].op = "OCIAttrSet" =>
            calls[i].size =
                ( CASE calls[i].attr = OCIAttribute_Username -> Len(username)
                    [] calls[i].attr = OCIAttribute_Password -> Len(password)
                    [] OTHER -> 0 )

ChildTypes == {OCIHandleType_Server, OCIHandleType_Service, OCIHandleType_Session}

\* The server, service and session handles the native layer has handed out.
ChildrenHandedOut ==
    { Produced(calls[k]) : k \in { j \in 1..Len(calls) :
          /\ calls[j].op = "OCIHandleAlloc"
          /\ calls[j].htype \in ChildTypes
          /\ NativeAllocates(calls[j], calls[j].res) } }

\* Connection::new is over and has not returned a Connection.
ConnectionNewAborted ==
    AtRest /\ op = "Connection::new" /\ held # "conn"

\* C23: while and after Connection::new aborts, no OCIHandleFree call is made
\* for a server, service or session handle, and the handles of these types
\* that were handed out are still allocated when it is over.
C23_ChildrenLeaked ==
    /\ op = "Connection::new" =>
          \A i \in 1..Len(calls) :
              calls[i].op = "OCIHandleFree" => calls[i].htype \notin ChildTypes
    /\ ConnectionNewAborted => ChildrenHandedOut \subseteq live

\* Connection::new returned the error of session-begin: the environment and
\* its error handle were freed, and the three children are still allocated.
C23_Witness ==
    /\ pc = Idle /\ op = "Connection::new" /\ result.tag = "Err"
    /\ result.err.location = "ffi::oci_session_begin"
    /\ live = {"srv", "svc", "ses"}
    /\ Len(CallsOf({"OCIHandleFree"})) = 2

\* A call of entry point o on handle h answered success.
Succeeded(o, h) ==
    \E i \in 1..Len(calls) :
        calls[i].op = o /\ calls[i].target = h /\ calls[i].res = 0

\* The service context svc was linked, through attribute attr, to handle h.
Linked(svc, attr, h) ==
    \E i \in 1..Len(calls) :
        /\ calls[i].op = "OCIAttrSet" /\ calls[i].res = 0
        /\ calls[i].attr = attr
        /\ calls[i].target = svc
        /\ calls[i].htype = OCIHandleType_Service
        /\ calls[i].uses = {svc, ptrs.error_handle, h}

\* C24: once a Connection exists, its server handle has been attached, its
\* session begun, and its service context linked to the server handle and to
\* the session handle held in the same Connection, all of them allocated
\* handles: there is no Connection that is set up in part.
C24_ConnectionFullySetUp ==
    "conn" \in created =>
        /\ {ptrs.server_handle, ptrs.service_handle, ptrs.session_handle,
            ptrs.handle, ptrs.error_handle} \subseteq SuccessfullyAllocated
        /\ Succeeded("OCIServerAttach", ptrs.server_handle)
        /\ Succeeded("OCISessionBegin", ptrs.session_handle)
        /\ Linked(ptrs.service_handle, OCIAttribute_Server, ptrs.server_handle)
        /\ Linked(ptrs.service_handle, OCIAttribute_Session, ptrs.session_handle)
        /\ ptrs.server_handle # ptrs.session_handle

\* Connection::new has just returned a Connection.
C24_Witness ==
    /\ pc = Idle /\ op = "Connection::new" /\ result = Ok("conn")
    /\ held = "conn"
    /\ Len(CallsOf({"OCIAttrSet"})) = 4

\* C25: no status a native call answers is dropped unchecked: when a native
\* call made for check_error answers a non-success status, the outcome is
\* what check_error makes of that status, a panic or an error with that
\* code, and never the outcome of a call that succeeded.
C25_EveryStatusChecked ==
    cs.phase = "done" =>
        \A k \in 1..Len(cs.gets) :
            cs.gets[k].res # 0 =>
                \/ cs.out.tag = "Panic"
                \/ cs.out.tag = "Some" /\ cs.out.err.code = cs.gets[k].res

\* The handle type code that belongs to the handle held in a field.
C26_TypeOfHandle(h) ==
    CASE h = ptrs.handle -> 1
      [] h = ptrs.error_handle -> 2
      [] h = ptrs.service_handle -> 3
      [] h = ptrs.server_handle -> 8
      [] h = ptrs.session_handle -> 9
      [] OTHER -> 0

\* The attribute code, and the type code of the target, of the OCIAttrSet
\* call that carries a given value.
C26_AttrOf(c) ==
    CASE c.text = username /\ c.text # <<>> -> <<22, 9>>
      [] c.text = password /\ c.text # <<>> -> <<23, 9>>
      [] ptrs.server_handle \in c.uses -> <<6, 3>>
      [] OTHER -> <<7, 3>>

\* The handle type codes of the allocations, in the order they are made.
C26_AllocTypes == <<2, 8, 3, 9>>

\* C26: the numeric codes in the native calls of Connection::new and of the
\* teardown are: attribute-set Server 6, Session 7 (on a target of type 3),
\* Username 22, Password 23 (on a target of type 9); session-begin
\* credential type 1 and mode 0; environment creation and server attach mode
\* 0; allocations and frees Environment 1, Error 2, Service 3, Server 8,
\* Session 9.
C26_NumericCodes ==
    /\ \A i \in 1..Len(calls) :
          LET c == calls[i] IN
          /\ c.op = "OCIAttrSet" => <<c.attr, c.htype>> = C26_AttrOf(c)
          /\ c.op = "OCISessionBegin" => (c.cred = 1 /\ c.mode = 0)
          /\ c.op \in {"OCIEnvNlsCreate", "OCIServerAttach"} => c.mode = 0
          /\ c.op = "OCIHandleFree" =>
                (c.htype = C26_TypeOfHandle(c.target) /\ c.htype # 0)
    /\ LET allocs == CallsOf({"OCIHandleAlloc"})
       IN \A k \in 1..Len(allocs) : allocs[k].htype = C26_AllocTypes[k]

\* A connection was set up and torn down in full.
C26_Witness ==
    /\ pc = Idle /\ op = "drop" /\ "conn" \in created /\ held = "none"
    /\ Len(CallsOf({"OCIAttrSet"})) = 4
    /\ Len(CallsOf({"OCIHandleFree"})) = 5
    /\ AllOk(ProtocolCalls)

\* C27: any two OCIStmtPrepare2 calls that are given different statement
\* texts are given different keys.
C27_DistinctTextsDistinctKeys ==
    \A i, j \in 1..Len(PrepareCalls) :
        PrepareCalls[i].text # PrepareCalls[j].text =>
            <<PrepareCalls[i].key, PrepareCalls[i].keylen>> #
                <<PrepareCalls[j].key, PrepareCalls[j].keylen>>

\* Two statements with different texts, one a prefix of the other, were
\* prepared on two connections.
C27_Witness ==
    /\ Len(PrepareCalls) = 2
    /\ PrepareCalls[1].text = <<"S", "1">>
    /\ PrepareCalls[2].text = <<"S">>
    /\ PrepareCalls[2].res = 0

\* Handle h was given up by the native layer before call i of the log.
GivenUpBefore(h, i) ==
    \E j \in 1..(i - 1) :
        NativeFrees(calls[j], calls[j].res) /\ calls[j].target = h

\* C28: no native call is given a handle that was freed, or a statement
\* handle that was released, before it; the error handle given to
\* OCIStmtRelease, OCISessionEnd and OCIServerDetach in particular is an
\* allocated one.
C28_NoUseAfterFree ==
    \A i \in 1..Len(calls) :
        /\ \A h \in calls[i].uses : ~GivenUpBefore(h, i)
        /\ calls[i].op \in {"OCIStmtRelease", "OCISessionEnd", "OCIServerDetach"} =>
              /\ "err" \in calls[i].uses
              /\ "err" \in SuccessfullyAllocated

\* A failing execute returned its error: the statement was released and its
\* connection torn down in full on the way out, every teardown call having
\* answered success.
C28_Witness ==
    /\ pc = Idle /\ op = "execute" /\ result.tag = "Err"
    /\ Len(ReleaseCalls) = 1
    /\ Len(CallsOf({"OCIHandleFree"})) = 5
    /\ live = {}

\* Connection::new is over, its Environment had been built, and one of its
\* own setup calls failed.
ConnectionNewFailedAfterEnv ==
    /\ ConnectionNewAborted
    /\ "env" \in created
    /\ FailedSetupCalls # {}

\* The calls made after the first failing setup call, the diagnostic
\* retrievals of check_error left out.
CallsAfterFailure ==
    SelectSeq(SubSeq(calls, FirstFailedSetupCall + 1, Len(calls)),
              LAMBDA c : c.op # "OCIErrorGet")

EnvironmentTeardown == << <<"free", "ErrorHandle">>, <<"free", "Environment">> >>

\* C29 as stated: when Connection::new fails after its Environment was
\* built, the calls made after the failing call are free(ErrorHandle) then
\* free(Environment), each once, and nothing else.
C29_Original ==
    ConnectionNewFailedAfterEnv =>
        LabelsOf(CallsAfterFailure) = EnvironmentTeardown

\* C29, amended: when Connection::new fails after its Environment was built,
\* the calls made after the failing call are free(ErrorHandle) and then,
\* when that free answered success, free(Environment), each once; a failing
\* free(ErrorHandle) is the last call.  Neither session-end nor
\* server-detach is made.
C29_OnlyEnvironmentTeardown ==
    /\ ConnectionNewFailedAfterEnv =>
          /\ Len(CallsAfterFailure) >= 1
          /\ LabelsOf(CallsAfterFailure) =
                IF CallsAfterFailure[1].res = 0
                THEN EnvironmentTeardown
                ELSE SubSeq(EnvironmentTeardown, 1, 1)
    /\ (op = "Connection::new" /\ held # "conn") =>
          CallsOf({"OCISessionEnd", "OCIServerDetach"}) = <<>>

\* Connection::new returned the error of the last link: attach and
\* session-begin had succeeded, and the two frees followed.
C29_Witness ==
    /\ ConnectionNewFailedAfterEnv /\ pc = Idle /\ result.tag = "Err"
    /\ Succeeded("OCIServerAttach", "srv")
    /\ Succeeded("OCISessionBegin", "ses")
    /\ Len(CallsAfterFailure) = 2

\* Statement::new is over and its prepare call answered a non-success status.
StatementNewFailed ==
    /\ AtRest /\ op = "Statement::new"
    /\ \E i \in 1..Len(PrepareCalls) : PrepareCalls[i].res # 0

\* No Statement exists and none was released.
NoStatement ==
    /\ "stmt" \notin created /\ held = "none"
    /\ ReleaseCalls = <<>>

\* The error of the prepare call was returned to the caller.
PrepareErrorReturned ==
    /\ pc = Idle /\ result.tag = "Err"
    /\ result.err.location = "ffi::oci_stmt_prepare2"

\* The Connection was torn down in full, session-end through
\* free(Environment).
TornDownInFull == LabelsOf(CallsOf(ConnTeardownOps)) = DestructionOrder

\* C30 as stated: when the prepare call of Statement::new fails, the error is
\* returned, no Statement exists, no release is made, and the Connection
\* that was passed in has been torn down in full when the call returns.
C30_Original ==
    StatementNewFailed =>
        /\ PrepareErrorReturned
        /\ NoStatement
        /\ TornDownInFull

\* C30, amended: when the prepare call of Statement::new fails, no Statement
\* exists, no release is made and the caller is left without a connection;
\* when the status is one of the six sentinel codes and every teardown call
\* answers success, the Connection is torn down in full and the error of the
\* prepare call is returned; otherwise Statement::new panics and returns
\* nothing, and the teardown is complete if no teardown call failed.
C30_PrepareFailureDropsConnection ==
    StatementNewFailed =>
        /\ NoStatement
        /\ IF /\ PrepareCalls[1].res \in {100, -2, 99, -3123, -1, 1}
              /\ AllOk(CallsOf(ConnTeardownOps))
           THEN PrepareErrorReturned /\ TornDownInFull
           ELSE /\ pc \in {Panicked, Aborted} /\ result.tag # "Err"
                /\ AllOk(CallsOf(ConnTeardownOps)) => TornDownInFull

\* Statement::new returned the error of a prepare call that answered -1, the
\* seven teardown calls of the Connection having answered success.
C30_Witness ==
    /\ StatementNewFailed /\ PrepareErrorReturned
    /\ PrepareCalls[1].res = -1
    /\ Len(CallsOf(ConnTeardownOps)) = 7
    /\ live = {}

\* execute() is over and its OCIStmtExecute call answered a non-success
\* status.
ExecuteFailed ==
    /\ AtRest /\ op = "execute"
    /\ ExecuteCalls # <<>>
    /\ ExecuteCalls[Len(ExecuteCalls)].res # 0

\* The error of the execute call was returned and the caller holds nothing.
ExecuteErrorReturned ==
    /\ pc = Idle /\ result.tag = "Err" /\ held = "none"
    /\ result.err.location = "ffi::oci_stmt_execute"

\* The statement was released once, under the key of its prepare call, and
\* the teardown calls of its Connection followed, session-end through
\* free(Environment).
ReleasedThenTornDown ==
    /\ Len(ReleaseCalls) = 1
    /\ ReleaseCalls[1].key = PrepareCalls[1].key
    /\ ReleaseCalls[1].keylen = PrepareCalls[1].keylen
    /\ ReleaseCalls[1].target = Produced(PrepareCalls[1])
    /\ LabelsOf(CallsOf(TeardownOps)) = << <<"OCIStmtRelease", "">> >> \o DestructionOrder

\* C31 as stated: when execute fails, the error is returned, the caller gets
\* no Statement back, and before the call returns the statement has been
\* released under its prepare key and its Connection torn down in full, in
\* that order.
C31_Original ==
    ExecuteFailed => (ExecuteErrorReturned /\ ReleasedThenTornDown)

\* C31, amended: when execute fails the caller gets no Statement back and
\* the first teardown call made is the release of the statement under its
\* prepare key; when the status is one of the six sentinel codes and every
\* teardown call answers success, the Connection is torn down in full after
\* the release and the error of the execute call is returned; otherwise
\* execute panics and returns nothing.
C31_ExecuteFailureDropsStatement ==
    ExecuteFailed =>
        /\ held = "none"
        /\ Len(ReleaseCalls) = 1
        /\ ReleaseCalls[1].key = PrepareCalls[1].key
        /\ ReleaseCalls[1].keylen = PrepareCalls[1].keylen
        /\ CallsOf(TeardownOps)[1].op = "OCIStmtRelease"
        /\ IF /\ ExecuteCalls[Len(ExecuteCalls)].res \in {100, -2, 99, -3123, -1, 1}
              /\ AllOk(CallsOf(TeardownOps))
           THEN ExecuteErrorReturned /\ ReleasedThenTornDown
           ELSE pc \in {Panicked, Aborted} /\ result.tag # "Err"

\* The second of two chained executes answered 100 and its error was
\* returned after the release and the seven teardown calls of the Connection.
C31_Witness ==
    /\ ExecuteFailed /\ ExecuteErrorReturned
    /\ Len(ExecuteCalls) = 2
    /\ ExecuteCalls[2].res = 100
    /\ Len(CallsOf(TeardownOps)) = 8

\* A constructor is over and the first of its setup calls that did not
\* answer success answered 1, success with info.
SetupAnsweredInfo ==
    ConstructorFailed /\ calls[FirstFailedSetupCall].res = 1

\* The prepare call answered 1: the native layer produced a statement handle.
PrepareAnsweredInfo ==
    /\ SetupAnsweredInfo
    /\ calls[FirstFailedSetupCall].op = "OCIStmtPrepare2"

\* No Statement was returned, and the handle the prepare call produced is
\* still allocated and was never released.
StatementHandleLeaked ==
    /\ "stmt" \notin created /\ held = "none"
    /\ ReleaseCalls = <<>>
    /\ "stmt" \in live

\* The first failing setup call is the last setup call of the log.
NoSetupCallAfterFailure ==
    \A j \in 1..Len(calls) :
        j > FirstFailedSetupCall => calls[j].op \notin SetupOps

\* C32 as stated: a setup call that answers 1 is handled as a failure: no
\* later setup call is made and the constructor returns the error; when it is
\* the prepare call, no Statement is returned and the statement handle it
\* produced is never released.
C32_Original ==
    SetupAnsweredInfo =>
        /\ NoSetupCallAfterFailure
        /\ ReturnedFirstError
        /\ PrepareAnsweredInfo => StatementHandleLeaked

\* C32, amended: a setup call that answers 1 is handled as a failure: no
\* later setup call is made, and the constructor returns the error when
\* every cleanup call of the error path answers success and panics
\* otherwise; when it is the prepare call, no Statement is returned and the
\* statement handle it produced is never released.
C32_InfoIsFailure ==
    SetupAnsweredInfo =>
        /\ NoSetupCallAfterFailure
        /\ IF AllOk(CallsOf(TeardownOps))
           THEN ReturnedFirstError
           ELSE pc \in {Panicked, Aborted} /\ result.tag # "Err"
        /\ PrepareAnsweredInfo => StatementHandleLeaked

\* Statement::new returned the error of a prepare call that answered 1; the
\* Connection was torn down and the statement handle is still allocated.
C32_Witness ==
    /\ PrepareAnsweredInfo /\ pc = Idle /\ result.tag = "Err"
    /\ op = "Statement::new"
    /\ live = {"stmt"}
    /\ Len(CallsOf(ConnTeardownOps)) = 7

\* C33: a call of Drop for Connection that answers a non-success status is
\* the last call of that destructor: after a failing session-end there is no
\* server-detach and no free of the session, service and server handles, and
\* likewise after a failing server-detach or free.
C33_TeardownStopsAtFailure ==
    \A i \in 1..Len(ConnTeardownCalls) :
        ConnTeardownCalls[i].res # 0 => i = Len(ConnTeardownCalls)

\* The session-end of a Connection failed: it is the only call of Drop for
\* Connection, and the thread unwound through the frees of the Environment.
C33_Witness ==
    /\ pc = Panicked /\ "conn" \in created
    /\ Len(ConnTeardownCalls) = 1
    /\ ConnTeardownCalls[1].op = "OCISessionEnd"
    /\ ConnTeardownCalls[1].res # 0
    /\ Len(CallsOf({"OCIHandleFree"})) = 2

\* C34: over the lifetime of one Connection at most one OCIStmtPrepare2 call
\* is issued: new_statement moves the Connection into the Statement, and from
\* the prepare call on the caller never holds the Connection again, whatever
\* the calls answer and however often the Statement is executed.
C34_AtMostOnePrepare ==
    /\ Len(PrepareCalls) <= 1
    /\ Len(PrepareCalls) = 1 => held # "conn"
    /\ \A i \in 1..Len(PrepareCalls) :
          PrepareCalls[i].uses = {ptrs.service_handle, ptrs.error_handle}

\* A Statement was prepared, executed twice and dropped: one prepare call.
C34_Witness ==
    /\ pc = Idle /\ op = "drop" /\ held = "none" /\ "stmt" \in created
    /\ Len(PrepareCalls) = 1
    /\ Len(ExecuteCalls) = 2
    /\ Len(ReleaseCalls) = 1

\* The calls that handed out the handle a free is issued on, before the free.
C35_AllocationsOf(i) ==
    { j \in 1..(i - 1) : /\ calls[j].op \in {"OCIEnvNlsCreate", "OCIHandleAlloc"}
                        /\ calls[j].res = 0
                        /\ Produced(calls[j]) = calls[i].target }

\* C35: every OCIHandleFree call is issued on a handle that exactly one
\* earlier successful call handed out, and carries the handle type of that
\* allocation: the type given to OCIHandleAlloc (Session, Service, Server,
\* Error), or Environment for the handle made by OCIEnvNlsCreate.
C35_FreeCarriesAllocationType ==
    \A i \in 1..Len(calls) :
        calls[i].op = "OCIHandleFree" =>
            /\ Cardinality(C35_AllocationsOf(i)) = 1
            /\ \A j \in C35_AllocationsOf(i) :
                  calls[i].htype = IF calls[j].op = "OCIHandleAlloc"
                                   THEN calls[j].htype
                                   ELSE OCIHandleType_Environment

\* A statement and its connection were torn down: the five frees carry the
\* types Session, Service, Server, Error, Environment, in this order.
C35_Witness ==
    /\ AtRest /\ "stmt" \in created
    /\ Len(CallsOf({"OCIHandleFree"})) = 5
    /\ [k \in 1..5 |-> CallsOf({"OCIHandleFree"})[k].htype]
          = << OCIHandleType_Session, OCIHandleType_Service, OCIHandleType_Server,
               OCIHandleType_Error, OCIHandleType_Environment >>

====
